---- MODULE Spec2Model ----
(***************************************************************************)
(* Model of the faxSort service: the queue-driven FaxProcessor             *)
(* (src/src/processor/fax_processor.py) and the polling pipeline           *)
(* process_new_faxes (src/src/main.py).                                    *)
(*                                                                         *)
(* Every await of the Python code is a step of the task that executes it;  *)
(* code between two awaits is one atomic step (asyncio is cooperative).    *)
(* External collaborators (fax provider, OCR, redaction engine, language   *)
(* model, mail transport, filesystem) answer nondeterministically.         *)
(***************************************************************************)
EXTENDS Integers, Sequences, FiniteSets, TLC

(***************************************************************************)
(* Bounds                                                                  *)
(***************************************************************************)
MaxFax == 2          \* fax records that ever exist in one behaviour
MaxConsumers == 2    \* _process_queue tasks that can ever be created

FaxIds == 1..MaxFax
Consumers == 1..MaxConsumers

(***************************************************************************)
(* Configuration and input domains                                         *)
(***************************************************************************)
\* SENDER_MAPPINGS="ClinicA:LabResult" after parsing
sender_mappings == [s \in {"ClinicA"} |-> "LabResult"]

\* a fromNameAddressBook that is a JSON array: Python cannot hash it
UnhashableName == "<list>"

\* the 'time' field: an int, or a str that int() has to parse
TimeInt(n) == [isStr |-> FALSE, num |-> n, chars |-> <<>>]
TimeStr(cs) == [isStr |-> TRUE, num |-> 0, chars |-> cs]
\* the records the provider reports: a mapped sender, an unmapped one, a
\* name that is no string, and a time that is no number
FaxShapes == {<<"ClinicA", TimeInt(67)>>, <<"Stranger", TimeStr(<<"6", "7">>)>>,
              <<UnhashableName, TimeInt(67)>>, <<"ClinicA", TimeStr(<<"x">>)>>}

Digits == <<"0", "1", "2", "3", "4", "5", "6", "7", "8", "9">>
IsDigit(ch) == \E i \in 1..10 : Digits[i] = ch
DigitVal(ch) == (CHOOSE i \in 1..10 : Digits[i] = ch) - 1

\* int(s) for a str of decimal digits; ValueError otherwise
RECURSIVE ParseDigits(_, _)
ParseDigits(cs, acc) ==
    IF cs = <<>> THEN acc
    ELSE ParseDigits(Tail(cs), acc * 10 + DigitVal(Head(cs)))

IntParses(cs) == cs # <<>> /\ \A i \in 1..Len(cs) : IsDigit(cs[i])

\* line 74: int(fax['time']) if isinstance(fax['time'], str) else fax['time']
TimestampRaises(t) == t.isStr /\ ~IntParses(t.chars)
Timestamp(t) == IF t.isStr THEN ParseDigits(t.chars, 0) ELSE t.num

\* line 75: strftime('%Y%m%d_%H%M%S'), here the minute and second fields
FormattedTime(ts) == <<ts \div 60, ts % 60>>

\* line 76: f"tmp/fax_{formatted_time}_{fax_id}.pdf"
PdfFilename(formatted_time, fax_id) == <<"tmp/fax", formatted_time, fax_id, ".pdf">>

NoPath == <<"unbound">>

MakeFax(id, sender, t) == [id |-> id, fromNameAddressBook |-> sender, time |-> t]
NoFax == [id |-> 0, fromNameAddressBook |-> "", time |-> TimeInt(0)]

\* line 79: from_name in self.sender_mappings

\* what the language model may answer (message.content[0].text.strip())
ModelReplies == {"Referral", "Sure! Referral", ""}

\* email_router.send_fax_email: True, False, or an exception
SendOutcomes == {"sent", "failed", "raised"}

RawText == "raw"
RedactedText == "redacted"

(***************************************************************************)
(* State                                                                   *)
(***************************************************************************)
VARIABLES
    mode,               \* which pipeline this deployment runs
    hipaa,              \* HIPAA_MODE: FaxProcessor.phi_redactor is not None
    processing_queue,   \* FaxProcessor.processing_queue (asyncio.Queue)
    is_processing,      \* FaxProcessor.is_processing
    pc,                 \* position of each _process_queue task
    lv,                 \* locals of _process_single_fax in each task
    stopPc,             \* position of the caller of stop_processing
    mainPc,             \* position of polling_task / process_new_faxes
    batch,              \* faxes of the current poll not yet handled
    mlv,                \* locals of the loop body of process_new_faxes
    nextId,             \* identifier of the next fax the provider reports
    meta,               \* the record of each fax as it was received
    enqueued,           \* ids in the order they were enqueued / discovered
    handed,             \* ids in the order processing of them began
    finished,           \* ids whose processing has ended
    escaped,            \* ids whose processing ended by an escaping exception
    attempts,           \* per id, the calls of send_fax_email in order
    calls,              \* per id, the collaborators invoked, with success
    classifyArg,        \* per id, the texts handed to classify_text
    files,              \* paths that exist in tmp/
    removals,           \* the os.remove calls of the pipeline, with success
    pendingAtStop,      \* ids waiting in the queue when stop was requested
    inFlightAtStop,     \* ids in _process_single_fax when stop was requested
    mappings,           \* self.sender_mappings / the local sender_mappings
    mappings_str,       \* the SENDER_MAPPINGS text being loaded
    loadState,          \* outcome of loading SENDER_MAPPINGS
    lookups,            \* sender lookups answered from a loaded table
    pathIn,             \* two fax records whose staging paths are computed
    pathOut,            \* the staging paths computed for them
    polling_rate,       \* POLLING_RATE, in seconds
    clock,              \* int(datetime.now().timestamp())
    pollPc,             \* position of polling_task on the clock
    windows,            \* the [timeFrom, timeTo] of the answered requests
    polls               \* the times at which a listing was requested

cfgVars == <<mode, hipaa, mappings>>
procVars == <<processing_queue, is_processing, pc, lv, stopPc, pendingAtStop,
              inFlightAtStop>>
loadVars == <<mappings_str, loadState, lookups>>
pathVars == <<pathIn, pathOut>>
clockVars == <<polling_rate, clock, pollPc, windows, polls>>
mainVars == <<mainPc, batch, mlv>>
faxVars == <<nextId, meta, enqueued>>
runVars == <<handed, finished, escaped>>
effectVars == <<attempts, calls, classifyArg, files, removals>>
vars == <<cfgVars, procVars, mainVars, faxVars, runVars, effectVars, loadVars, pathVars,
         clockVars>>

NoResult == "<None>"
NoLocals == [fax |-> NoFax, pdf_filename |-> NoPath, text |-> "", result |-> NoResult]

\* variant: the parsed timestamp is stored back into the record
BindLocals_StoreTimestamp(fax) ==
    [NoLocals EXCEPT
        !.fax = [fax EXCEPT !.time = TimeInt(Timestamp(fax.time))],
        !.pdf_filename = PdfFilename(FormattedTime(Timestamp(fax.time)), fax.id)]

\* lines 72-76 (main.py 128-134): fax_id, timestamp, formatted_time and
\* pdf_filename are new local names; the record keeps its fields
BindLocals(fax) ==
    [NoLocals EXCEPT
        !.fax = fax,
        !.pdf_filename = PdfFilename(FormattedTime(Timestamp(fax.time)), fax.id)]

\* nothing has been enqueued, polled or sent yet
Idle ==
    /\ processing_queue = <<>>
    /\ is_processing = FALSE
    /\ pc = [c \in Consumers |-> "unstarted"]
    /\ lv = [c \in Consumers |-> NoLocals]
    /\ stopPc = "none"
    /\ pendingAtStop = {}
    /\ mainPc = "poll"
    /\ batch = <<>>
    /\ mlv = NoLocals
    /\ nextId = 1
    /\ meta = [i \in FaxIds |-> NoFax]
    /\ enqueued = <<>>
    /\ handed = <<>>
    /\ finished = {}
    /\ escaped = {}
    /\ attempts = [i \in FaxIds |-> <<>>]
    /\ calls = [i \in FaxIds |-> {}]
    /\ classifyArg = [i \in FaxIds |-> <<>>]
    /\ files = {}
    /\ removals = {}
    /\ inFlightAtStop = {}

\* SENDER_MAPPINGS is not being loaded
NotLoading ==
    /\ mappings_str = <<>>
    /\ loadState = "loaded"
    /\ lookups = {}

\* no staging path is being computed
NoPaths ==
    /\ pathIn = <<>>
    /\ pathOut = <<>>

\* the clock of the polling loop is not followed
NoClock ==
    /\ polling_rate = 0
    /\ clock = 0
    /\ pollPc = "off"
    /\ windows = {}
    /\ polls = {}

Init ==
    /\ mode \in {"processor", "polling"}
    /\ hipaa \in BOOLEAN
    /\ mappings = sender_mappings
    /\ Idle
    /\ NotLoading
    /\ NoPaths
    /\ NoClock

(***************************************************************************)
(* Effects on the collaborators                                            *)
(***************************************************************************)
Attempt(doc_type, pdf_path, fax_metadata, outcome, via) ==
    [document_type |-> doc_type, pdf_path |-> pdf_path,
     fax_metadata |-> fax_metadata, outcome |-> outcome, via |-> via]

\* one call of email_router.send_fax_email for fax id
Notified(id, doc_type, pdf_path, fax_metadata, outcome, via) ==
    attempts' = [attempts EXCEPT
        ![id] = Append(@, Attempt(doc_type, pdf_path, fax_metadata, outcome, via))]

Called(id, what, ok) == calls' = [calls EXCEPT ![id] = @ \cup {<<what, ok>>}]

\* download_fax followed by the write of the bytes to pdf_filename
Fetched(id, downloaded, written) ==
    calls' = [calls EXCEPT ![id] = @ \cup
                IF downloaded
                THEN {<<"download_pdf", TRUE>>, <<"write_pdf", written>>}
                ELSE {<<"download_pdf", FALSE>>}]

\* with open(pdf_filename, 'wb') as f: f.write(content)
Staged(path) == files' = files \cup {path}

\* PHIRedactor.redact_phi: the engine's output, or the input when it failed
redact_phi(text, engineOk) ==
    IF engineOk
    THEN [redacted_text |-> RedactedText, redaction_count |-> 1, error |-> FALSE]
    ELSE [redacted_text |-> text, redaction_count |-> 0, error |-> TRUE]

\* FaxProcessor._cleanup_pdf: remove the file when it exists; an error of
\* os.remove is logged and swallowed
cleanup_pdf(pdf_path, removeOk) ==
    IF pdf_path \in files
    THEN /\ files' = IF removeOk THEN files \ {pdf_path} ELSE files
         /\ removals' = removals \cup {<<pdf_path, removeOk>>}
    ELSE UNCHANGED <<files, removals>>

\* variants of the guard: cleanup whatever the notifier said, and no cleanup
CleanupAfter_Always(email_sent) == TRUE
CleanupAfter_Never(email_sent) == FALSE

\* lines 156-161 and 173-178: "if email_sent:" guards the cleanup
CleanupAfter(email_sent) == email_sent

\* variant: the mapped category is dropped for the default label
DirectClassification_Default(from_name) == "Uncategorized"

\* line 79: from_name in self.sender_mappings
LookupRaises(from_name) == from_name = UnhashableName
IsKnownSender(from_name) == from_name \in DOMAIN mappings

\* lines 99 and 146: doc_type = sender_mappings[from_name]
DirectClassification(from_name) == mappings[from_name]

\* variant: the newest entry is served first
QueueGet_Newest(q) == q[Len(q)]

\* asyncio.Queue.get on a non-empty queue
QueueGet(q) == Head(q)
QueueRest(q) == Tail(q)

(***************************************************************************)
(* FaxProcessor: lifecycle and queue                                       *)
(***************************************************************************)
\* start_processing: set the flag and create one more _process_queue task
StartProcessing ==
    /\ mode = "processor"
    /\ \E c \in Consumers :
        /\ pc[c] = "unstarted"
        /\ \A d \in Consumers : d < c => pc[d] # "unstarted"
        /\ pc' = [pc EXCEPT ![c] = "while"]
    /\ is_processing' = TRUE
    /\ UNCHANGED <<cfgVars, loadVars, pathVars, clockVars, processing_queue, lv, stopPc, pendingAtStop, inFlightAtStop,
                   mainVars, faxVars, runVars, effectVars>>

\* the deployment with a single start_processing call
StartProcessingOnce ==
    /\ \A c \in Consumers : pc[c] = "unstarted"
    /\ StartProcessing

\* the positions of a task inside _process_single_fax
InFlight == {"single", "known", "tiff", "pdf", "ocr", "redact", "classify",
             "send", "failure"}

\* variant: the stop request also cancels the consumer tasks
StopProcessing_Cancel ==
    /\ mode = "processor"
    /\ stopPc = "none"
    /\ \E c \in Consumers : pc[c] # "unstarted"
    /\ is_processing' = FALSE
    /\ stopPc' = "waiting"
    /\ pendingAtStop' = {processing_queue[i].id : i \in 1..Len(processing_queue)}
    /\ inFlightAtStop' = {lv[c].fax.id : c \in {d \in Consumers : pc[d] \in InFlight}}
    /\ pc' = [c \in Consumers |-> IF pc[c] = "unstarted" THEN pc[c] ELSE "exited"]
    /\ UNCHANGED <<cfgVars, loadVars, pathVars, clockVars, processing_queue, lv,
                   mainVars, faxVars, runVars, effectVars>>

\* stop_processing, line 45: clear the flag, then wait for the queue
StopProcessing ==
    /\ mode = "processor"
    /\ stopPc = "none"
    /\ \E c \in Consumers : pc[c] # "unstarted"
    /\ is_processing' = FALSE
    /\ stopPc' = "waiting"
    /\ pendingAtStop' = {processing_queue[i].id : i \in 1..Len(processing_queue)}
    /\ inFlightAtStop' = {lv[c].fax.id : c \in {d \in Consumers : pc[d] \in InFlight}}
    /\ UNCHANGED <<cfgVars, loadVars, pathVars, clockVars, processing_queue, pc, lv,
                   mainVars, faxVars, runVars, effectVars>>

\* stop_processing, lines 47-48: returns once the queue is seen empty
StopReturns ==
    /\ mode = "processor"
    /\ stopPc = "waiting"
    /\ processing_queue = <<>>
    /\ stopPc' = "returned"
    /\ UNCHANGED <<cfgVars, loadVars, pathVars, clockVars, processing_queue, is_processing, pc, lv, pendingAtStop, inFlightAtStop,
                   mainVars, faxVars, runVars, effectVars>>

\* add_fax_to_queue: put a record the poller discovered
AddFaxToQueue ==
    /\ mode = "processor"
    /\ nextId <= MaxFax
    /\ \E shape \in FaxShapes :
        LET fax == MakeFax(nextId, shape[1], shape[2]) IN
        /\ processing_queue' = Append(processing_queue, fax)
        /\ meta' = [meta EXCEPT ![nextId] = fax]
    /\ enqueued' = Append(enqueued, nextId)
    /\ nextId' = nextId + 1
    /\ UNCHANGED <<cfgVars, loadVars, pathVars, clockVars, is_processing, pc, lv, stopPc, pendingAtStop, inFlightAtStop,
                   mainVars, runVars, effectVars>>

\* _process_queue, lines 57-64: one evaluation of the loop condition and of
\* the emptiness test; get() on a non-empty queue does not suspend
ProcessQueue(c) ==
    /\ mode = "processor"
    /\ pc[c] = "while"
    /\ IF ~is_processing
       THEN /\ pc' = [pc EXCEPT ![c] = "exited"]
            /\ UNCHANGED <<processing_queue, lv, handed>>
       ELSE IF processing_queue # <<>>
       THEN /\ lv' = [lv EXCEPT ![c] = [NoLocals EXCEPT !.fax = QueueGet(processing_queue)]]
            /\ processing_queue' = QueueRest(processing_queue)
            /\ handed' = Append(handed, QueueGet(processing_queue).id)
            /\ pc' = [pc EXCEPT ![c] = "single"]
       ELSE /\ pc' = [pc EXCEPT ![c] = "sleep"]
            /\ UNCHANGED <<processing_queue, lv, handed>>
    /\ UNCHANGED <<cfgVars, loadVars, pathVars, clockVars, is_processing, stopPc, pendingAtStop, inFlightAtStop,
                   mainVars, faxVars, finished, escaped, effectVars>>

\* _process_queue, lines 64 and 67: asyncio.sleep(1) is over
WakeUp(c) ==
    /\ mode = "processor"
    /\ pc[c] = "sleep"
    /\ pc' = [pc EXCEPT ![c] = "while"]
    /\ UNCHANGED <<cfgVars, loadVars, pathVars, clockVars, processing_queue, is_processing, lv, stopPc, pendingAtStop, inFlightAtStop,
                   mainVars, faxVars, runVars, effectVars>>

\* _process_single_fax returned: task_done(), back to the loop condition
Returned(c) ==
    /\ pc' = [pc EXCEPT ![c] = "while"]
    /\ finished' = finished \cup {lv[c].fax.id}
    /\ UNCHANGED escaped

\* variant: the exception ends the _process_queue task
Escaped_EndsLoop(c) ==
    /\ pc' = [pc EXCEPT ![c] = "exited"]
    /\ finished' = finished \cup {lv[c].fax.id}
    /\ escaped' = escaped \cup {lv[c].fax.id}

\* an exception left _process_single_fax: lines 65-67
Escaped(c) ==
    /\ pc' = [pc EXCEPT ![c] = "sleep"]
    /\ finished' = finished \cup {lv[c].fax.id}
    /\ escaped' = escaped \cup {lv[c].fax.id}

\* line 85: "if result and result.get('classification')"
HasClassification(result) == result # NoResult

\* _process_single_fax, lines 72-82, up to the first await
ProcessSingleFax(c) ==
    /\ mode = "processor"
    /\ pc[c] = "single"
    /\ LET fax == lv[c].fax IN
       IF TimestampRaises(fax.time)
       THEN \* line 90 reads pdf_filename, which was never bound
            /\ Escaped(c)
            /\ UNCHANGED lv
       ELSE /\ lv' = [lv EXCEPT ![c] = BindLocals(fax)]
            /\ pc' = [pc EXCEPT ![c] =
                        IF LookupRaises(fax.fromNameAddressBook) THEN "failure"
                        ELSE IF IsKnownSender(fax.fromNameAddressBook) THEN "known"
                        ELSE "tiff"]
            /\ UNCHANGED <<finished, escaped>>
    /\ UNCHANGED <<cfgVars, loadVars, pathVars, clockVars, processing_queue, is_processing, stopPc, pendingAtStop, inFlightAtStop,
                   mainVars, faxVars, handed, effectVars>>

\* a stage returned result (None on a caught failure): lines 85-86
AfterStage(c, result) ==
    IF HasClassification(result)
    THEN /\ pc' = [pc EXCEPT ![c] = "send"]
         /\ UNCHANGED <<finished, escaped>>
    ELSE Returned(c)

\* _process_known_sender, lines 94-109
ProcessKnownSender(c) ==
    /\ mode = "processor"
    /\ pc[c] = "known"
    /\ \E downloaded \in BOOLEAN, written \in BOOLEAN :
        LET fax == lv[c].fax
            result == IF downloaded /\ written
                      THEN DirectClassification(fax.fromNameAddressBook)
                      ELSE NoResult
        IN
        /\ Fetched(fax.id, downloaded, written)
        /\ IF downloaded /\ written THEN Staged(lv[c].pdf_filename) ELSE UNCHANGED files
        /\ lv' = [lv EXCEPT ![c].result = result]
        /\ AfterStage(c, result)
    /\ UNCHANGED <<cfgVars, loadVars, pathVars, clockVars, processing_queue, is_processing, stopPc, pendingAtStop, inFlightAtStop,
                   mainVars, faxVars, handed, attempts, classifyArg, removals>>

\* _process_unknown_sender, line 115
DownloadTiff(c) ==
    /\ mode = "processor"
    /\ pc[c] = "tiff"
    /\ \E downloaded \in BOOLEAN :
        /\ Called(lv[c].fax.id, "download_tiff", downloaded)
        /\ IF downloaded
           THEN /\ pc' = [pc EXCEPT ![c] = "pdf"]
                /\ UNCHANGED <<finished, escaped>>
           ELSE AfterStage(c, NoResult)
    /\ UNCHANGED <<cfgVars, loadVars, pathVars, clockVars, processing_queue, is_processing, lv, stopPc, pendingAtStop, inFlightAtStop,
                   mainVars, faxVars, handed, attempts, classifyArg, files, removals>>

\* _process_unknown_sender, lines 116-120
DownloadPdf(c) ==
    /\ mode = "processor"
    /\ pc[c] = "pdf"
    /\ \E downloaded \in BOOLEAN, written \in BOOLEAN :
        /\ Fetched(lv[c].fax.id, downloaded, written)
        /\ IF downloaded /\ written
           THEN /\ Staged(lv[c].pdf_filename)
                /\ pc' = [pc EXCEPT ![c] = "ocr"]
                /\ UNCHANGED <<finished, escaped>>
           ELSE /\ AfterStage(c, NoResult)
                /\ UNCHANGED files
    /\ UNCHANGED <<cfgVars, loadVars, pathVars, clockVars, processing_queue, is_processing, lv, stopPc, pendingAtStop, inFlightAtStop,
                   mainVars, faxVars, handed, attempts, classifyArg, removals>>

\* _process_unknown_sender, lines 123-126
Ocr(c) ==
    /\ mode = "processor"
    /\ pc[c] = "ocr"
    /\ \E extracted \in BOOLEAN :
        /\ Called(lv[c].fax.id, "process_tiff", extracted)
        /\ IF extracted
           THEN /\ lv' = [lv EXCEPT ![c].text = RawText]
                /\ pc' = [pc EXCEPT ![c] = IF hipaa THEN "redact" ELSE "classify"]
                /\ UNCHANGED <<finished, escaped>>
           ELSE /\ AfterStage(c, NoResult)
                /\ UNCHANGED lv
    /\ UNCHANGED <<cfgVars, loadVars, pathVars, clockVars, processing_queue, is_processing, stopPc, pendingAtStop, inFlightAtStop,
                   mainVars, faxVars, handed, attempts, classifyArg, files, removals>>

\* _process_unknown_sender, lines 127-128
Redact(c) ==
    /\ mode = "processor"
    /\ pc[c] = "redact"
    /\ \E engineOk \in BOOLEAN :
        /\ Called(lv[c].fax.id, "redact_phi", engineOk)
        /\ lv' = [lv EXCEPT ![c].text = redact_phi(lv[c].text, engineOk).redacted_text]
    /\ pc' = [pc EXCEPT ![c] = "classify"]
    /\ UNCHANGED <<cfgVars, loadVars, pathVars, clockVars, processing_queue, is_processing, stopPc, pendingAtStop, inFlightAtStop,
                   mainVars, faxVars, runVars, attempts, classifyArg, files, removals>>

\* _process_unknown_sender, lines 131-136
Classify(c) ==
    /\ mode = "processor"
    /\ pc[c] = "classify"
    /\ classifyArg' = [classifyArg EXCEPT ![lv[c].fax.id] = Append(@, lv[c].text)]
    /\ \E reply \in ModelReplies \cup {NoResult} :
        /\ Called(lv[c].fax.id, "classify_text", reply # NoResult)
        /\ lv' = [lv EXCEPT ![c].result = reply]
        /\ AfterStage(c, reply)
    /\ UNCHANGED <<cfgVars, loadVars, pathVars, clockVars, processing_queue, is_processing, stopPc, pendingAtStop, inFlightAtStop,
                   mainVars, faxVars, handed, attempts, files, removals>>

\* _send_email, lines 149-163: every outcome ends the record
SendEmail(c) ==
    /\ mode = "processor"
    /\ pc[c] = "send"
    /\ \E outcome \in SendOutcomes, removeOk \in BOOLEAN :
        /\ Notified(lv[c].fax.id, lv[c].result, lv[c].pdf_filename, lv[c].fax,
                    outcome, "primary")
        /\ IF CleanupAfter(outcome = "sent")
           THEN cleanup_pdf(lv[c].pdf_filename, removeOk)
           ELSE UNCHANGED <<files, removals>>
    /\ Returned(c)
    /\ UNCHANGED <<cfgVars, loadVars, pathVars, clockVars, processing_queue, is_processing, lv, stopPc, pendingAtStop, inFlightAtStop,
                   mainVars, faxVars, handed, calls, classifyArg>>

\* _handle_processing_failure, lines 167-180
HandleProcessingFailure(c) ==
    /\ mode = "processor"
    /\ pc[c] = "failure"
    /\ \E outcome \in SendOutcomes, removeOk \in BOOLEAN :
        /\ Notified(lv[c].fax.id, "Uncategorized", lv[c].pdf_filename, lv[c].fax,
                    outcome, "fallback")
        /\ IF CleanupAfter(outcome = "sent")
           THEN cleanup_pdf(lv[c].pdf_filename, removeOk)
           ELSE UNCHANGED <<files, removals>>
    /\ Returned(c)
    /\ UNCHANGED <<cfgVars, loadVars, pathVars, clockVars, processing_queue, is_processing, lv, stopPc, pendingAtStop, inFlightAtStop,
                   mainVars, faxVars, handed, calls, classifyArg>>

(***************************************************************************)
(* main.py: polling_task and process_new_faxes                             *)
(***************************************************************************)
\* the faxes one poll can report: fresh identifiers, any sender and time
NewFaxes(n) ==
    {[i \in 1..n |-> MakeFax(nextId + i - 1, shape[i][1], shape[i][2])] :
        shape \in [1..n -> FaxShapes]}

\* variant: the label of FaxProcessor's failure path
MainFallbackLabel_Sentinel == "Uncategorized"

\* lines 178-198 and 221: the label used when a stage failed
MainFallbackLabel == "Unknown"

\* variant: a send that returned False is retried through the handler
MainAfterPrimary_RetryOnFalse(outcome) == IF outcome # "sent" THEN "fallback" ELSE "done"

\* lines 211-232: only an exception of the primary send reaches the handler
MainAfterPrimary(outcome) == IF outcome = "raised" THEN "fallback" ELSE "done"

\* polling_task, line 250: the sleep between two cycles is over
PollingTask ==
    /\ mode = "polling"
    /\ mainPc = "sleep"
    /\ mainPc' = "poll"
    /\ UNCHANGED <<cfgVars, loadVars, pathVars, clockVars, procVars, batch, mlv, faxVars, runVars, effectVars>>

\* process_new_faxes, lines 96-127 and 234-238: the listing request
PollForFaxes ==
    /\ mode = "polling"
    /\ mainPc = "poll"
    /\ \E answered \in BOOLEAN :
        IF ~answered
        THEN /\ mainPc' = "sleep"
             /\ UNCHANGED <<batch, faxVars>>
        ELSE \E n \in 0..(MaxFax + 1 - nextId) : \E faxes \in NewFaxes(n) :
             /\ batch' = faxes
             /\ mainPc' = IF n = 0 THEN "sleep" ELSE "begin"
             /\ nextId' = nextId + n
             /\ meta' = [i \in FaxIds |->
                            IF i \in nextId..(nextId + n - 1)
                            THEN faxes[i - nextId + 1] ELSE meta[i]]
             /\ enqueued' = enqueued \o [i \in 1..n |-> faxes[i].id]
    /\ UNCHANGED <<cfgVars, loadVars, pathVars, clockVars, procVars, mlv, runVars, effectVars>>

\* the loop body ended for the current fax: next fax, or the cycle is over
MainDone ==
    /\ batch' = Tail(batch)
    /\ mainPc' = IF Tail(batch) = <<>> THEN "sleep" ELSE "begin"
    /\ finished' = finished \cup {Head(batch).id}

MainGoto(outcomePc) ==
    IF outcomePc = "done"
    THEN MainDone
    ELSE /\ mainPc' = outcomePc
         /\ UNCHANGED <<batch, finished>>

\* process_new_faxes, lines 128-138 and 153, up to the first await
MainBegin ==
    /\ mode = "polling"
    /\ mainPc = "begin"
    /\ LET fax == Head(batch) IN
       /\ handed' = Append(handed, fax.id)
       /\ IF TimestampRaises(fax.time)
          THEN \* raised outside the per-fax try: line 237 ends the whole cycle
               /\ batch' = <<>>
               /\ mainPc' = "sleep"
               /\ finished' = finished \cup {fax.id}
               /\ escaped' = escaped \cup {fax.id}
               /\ UNCHANGED mlv
          ELSE /\ mlv' = BindLocals(fax)
               /\ mainPc' = IF LookupRaises(fax.fromNameAddressBook) THEN "fallback"
                            ELSE IF IsKnownSender(fax.fromNameAddressBook) THEN "known"
                            ELSE "tiff"
               /\ UNCHANGED <<batch, finished, escaped>>
    /\ UNCHANGED <<cfgVars, loadVars, pathVars, clockVars, procVars, faxVars, effectVars>>

\* lines 140-152; a failure reaches the handler of line 216
MainKnownSender ==
    /\ mode = "polling"
    /\ mainPc = "known"
    /\ \E downloaded \in BOOLEAN, written \in BOOLEAN :
        /\ Fetched(mlv.fax.id, downloaded, written)
        /\ IF downloaded /\ written
           THEN /\ Staged(mlv.pdf_filename)
                /\ mlv' = [mlv EXCEPT !.result =
                                DirectClassification(mlv.fax.fromNameAddressBook)]
                /\ mainPc' = "send"
           ELSE /\ mainPc' = "fallback"
                /\ UNCHANGED <<files, mlv>>
    /\ UNCHANGED <<cfgVars, loadVars, pathVars, clockVars, procVars, batch, faxVars, runVars,
                   attempts, classifyArg, removals>>

\* line 156; a failure is caught at line 191
MainDownloadTiff ==
    /\ mode = "polling"
    /\ mainPc = "tiff"
    /\ \E downloaded \in BOOLEAN :
        /\ Called(mlv.fax.id, "download_tiff", downloaded)
        /\ IF downloaded
           THEN /\ mainPc' = "pdf"
                /\ UNCHANGED mlv
           ELSE /\ mlv' = [mlv EXCEPT !.result = MainFallbackLabel]
                /\ mainPc' = "send"
    /\ UNCHANGED <<cfgVars, loadVars, pathVars, clockVars, procVars, batch, faxVars, runVars,
                   attempts, classifyArg, files, removals>>

\* lines 157-162; a failure is caught at line 191
MainDownloadPdf ==
    /\ mode = "polling"
    /\ mainPc = "pdf"
    /\ \E downloaded \in BOOLEAN, written \in BOOLEAN :
        /\ Fetched(mlv.fax.id, downloaded, written)
        /\ IF downloaded /\ written
           THEN /\ Staged(mlv.pdf_filename)
                /\ mainPc' = "ocr"
                /\ UNCHANGED mlv
           ELSE /\ mlv' = [mlv EXCEPT !.result = MainFallbackLabel]
                /\ mainPc' = "send"
                /\ UNCHANGED files
    /\ UNCHANGED <<cfgVars, loadVars, pathVars, clockVars, procVars, batch, faxVars, runVars,
                   attempts, classifyArg, removals>>

\* line 166; a failure is caught at line 183
MainOcr ==
    /\ mode = "polling"
    /\ mainPc = "ocr"
    /\ \E extracted \in BOOLEAN :
        /\ Called(mlv.fax.id, "process_tiff", extracted)
        /\ IF extracted
           THEN /\ mlv' = [mlv EXCEPT !.text = RawText]
                /\ mainPc' = "classify"
           ELSE /\ mlv' = [mlv EXCEPT !.result = MainFallbackLabel]
                /\ mainPc' = "send"
    /\ UNCHANGED <<cfgVars, loadVars, pathVars, clockVars, procVars, batch, faxVars, runVars,
                   attempts, classifyArg, files, removals>>

\* lines 170-182; a failure is caught at line 175
MainClassify ==
    /\ mode = "polling"
    /\ mainPc = "classify"
    /\ classifyArg' = [classifyArg EXCEPT ![mlv.fax.id] = Append(@, mlv.text)]
    /\ \E reply \in ModelReplies \cup {NoResult} :
        /\ Called(mlv.fax.id, "classify_text", reply # NoResult)
        /\ mlv' = [mlv EXCEPT !.result =
                        IF reply = NoResult THEN MainFallbackLabel ELSE reply]
    /\ mainPc' = "send"
    /\ UNCHANGED <<cfgVars, loadVars, pathVars, clockVars, procVars, batch, faxVars, runVars,
                   attempts, files, removals>>

\* lines 204-214: the primary notification; the file stays where it is
MainSend ==
    /\ mode = "polling"
    /\ mainPc = "send"
    /\ \E outcome \in SendOutcomes :
        /\ Notified(mlv.fax.id, mlv.result, mlv.pdf_filename, mlv.fax, outcome, "primary")
        /\ MainGoto(MainAfterPrimary(outcome))
    /\ UNCHANGED <<cfgVars, loadVars, pathVars, clockVars, procVars, mlv, faxVars, handed, escaped,
                   calls, classifyArg, files, removals>>

\* lines 216-232: the handler's own notification
MainFallbackSend ==
    /\ mode = "polling"
    /\ mainPc = "fallback"
    /\ \E outcome \in SendOutcomes :
        Notified(mlv.fax.id, MainFallbackLabel, mlv.pdf_filename, mlv.fax,
                 outcome, "fallback")
    /\ MainDone
    /\ UNCHANGED <<cfgVars, loadVars, pathVars, clockVars, procVars, mlv, faxVars, handed, escaped,
                   calls, classifyArg, files, removals>>

(***************************************************************************)
(* Specification                                                           *)
(***************************************************************************)
Next ==
    \/ StartProcessingOnce
    \/ StopProcessing
    \/ StopReturns
    \/ AddFaxToQueue
    \/ \E c \in Consumers : ProcessQueue(c)
    \/ \E c \in Consumers : WakeUp(c)
    \/ \E c \in Consumers : ProcessSingleFax(c)
    \/ \E c \in Consumers : ProcessKnownSender(c)
    \/ \E c \in Consumers : DownloadTiff(c)
    \/ \E c \in Consumers : DownloadPdf(c)
    \/ \E c \in Consumers : Ocr(c)
    \/ \E c \in Consumers : Redact(c)
    \/ \E c \in Consumers : Classify(c)
    \/ \E c \in Consumers : SendEmail(c)
    \/ \E c \in Consumers : HandleProcessingFailure(c)
    \/ PollingTask
    \/ PollForFaxes
    \/ MainBegin
    \/ MainKnownSender
    \/ MainDownloadTiff
    \/ MainDownloadPdf
    \/ MainOcr
    \/ MainClassify
    \/ MainSend
    \/ MainFallbackSend

Spec == Init /\ [][Next]_vars

TypeOK ==
    /\ mode \in {"processor", "polling"}
    /\ nextId \in 1..(MaxFax + 1)
    /\ Len(processing_queue) <= MaxFax

(***************************************************************************)
(* Properties                                                              *)
(***************************************************************************)
Sent(id) == \E i \in 1..Len(attempts[id]) : attempts[id][i].outcome = "sent"
FailedCall(id, what) == <<what, FALSE>> \in calls[id]
Invoked(id) == {call[1] : call \in calls[id]}
InProcessor(id) == mode = "processor" /\ id \in finished \ escaped
InPolling(id) == mode = "polling" /\ id \in finished \ escaped
MappedSender(id) == IsKnownSender(meta[id].fromNameAddressBook)
UnmappedSender(id) ==
    /\ meta[id] # NoFax
    /\ ~LookupRaises(meta[id].fromNameAddressBook)
    /\ ~IsKnownSender(meta[id].fromNameAddressBook)

\* C1: every record whose processing by FaxProcessor has finished (its id and
\* time were readable) has at least one notification attempt.
C1_NotifiedBeforeFinish ==
    \A id \in FaxIds : InProcessor(id) => Len(attempts[id]) >= 1

\* C2: a staged file disappears only in a step after which a notification
\* for the record of that path has returned success.
C2_DeleteOnlyAfterSuccess ==
    [][\A p \in files \ files' :
          \E id \in FaxIds : \E i \in 1..Len(attempts'[id]) :
              /\ p[3] = id
              /\ attempts'[id][i].pdf_path = p
              /\ attempts'[id][i].outcome = "sent"]_vars

\* C2 witness: one file was deleted after a success while another record,
\* whose notification did not succeed, keeps its file.
C2_Witness ==
    /\ \E r \in removals : r[2] /\ r[1] \notin files
    /\ \E id \in FaxIds :
        /\ InProcessor(id)
        /\ Len(attempts[id]) >= 1
        /\ ~Sent(id)
        /\ attempts[id][1].pdf_path \in files

\* C3 as stated: after FaxProcessor finished a record whose notification
\* succeeded, the staged file does not exist, also when os.remove fails.
C3_SuccessImpliesFileAbsent ==
    \A id \in FaxIds : \A i \in 1..Len(attempts[id]) :
        (InProcessor(id) /\ attempts[id][i].outcome = "sent")
            => attempts[id][i].pdf_path \notin files

\* C3 amended: after FaxProcessor finished a record whose notification
\* succeeded, the staged file does not exist unless os.remove failed on it.
C3_SuccessImpliesFileAbsentOrRemoveFailed ==
    \A id \in FaxIds : \A i \in 1..Len(attempts[id]) :
        (InProcessor(id) /\ attempts[id][i].outcome = "sent")
            => \/ attempts[id][i].pdf_path \notin files
               \/ <<attempts[id][i].pdf_path, FALSE>> \in removals

\* C3 witness: a notified record whose staged file was removed.
C3_Witness ==
    \E id \in FaxIds :
        /\ InProcessor(id)
        /\ Sent(id)
        /\ <<"write_pdf", TRUE>> \in calls[id]
        /\ <<attempts[id][1].pdf_path, TRUE>> \in removals
        /\ attempts[id][1].pdf_path \notin files

\* C4: after process_new_faxes finished a fax whose notification succeeded,
\* the staged file of that fax does not exist.
C4_PollingDeletesAfterSuccess ==
    \A id \in FaxIds : \A i \in 1..Len(attempts[id]) :
        (InPolling(id) /\ attempts[id][i].outcome = "sent")
            => attempts[id][i].pdf_path \notin files

\* C5 as stated: for a mapped sender whose pdf download succeeded, every
\* notification carries the mapped category, and only the pdf download ran.
C5_KnownSenderCategory ==
    \A id \in FaxIds :
        (MappedSender(id) /\ <<"download_pdf", TRUE>> \in calls[id]) =>
            /\ \A i \in 1..Len(attempts[id]) :
                 attempts[id][i].document_type = sender_mappings[meta[id].fromNameAddressBook]
            /\ Invoked(id) \subseteq {"download_pdf", "write_pdf"}

\* C5 amended: for a mapped sender whose pdf download succeeded, the primary
\* notification carries the mapped category, a fallback notification exists
\* only in process_new_faxes and carries 'Unknown', and only the pdf
\* download (and the write of the file) ran.
C5_KnownSenderPrimaryCategory ==
    \A id \in FaxIds :
        (MappedSender(id) /\ <<"download_pdf", TRUE>> \in calls[id]) =>
            /\ \A i \in 1..Len(attempts[id]) :
                 IF attempts[id][i].via = "primary"
                 THEN attempts[id][i].document_type =
                          sender_mappings[meta[id].fromNameAddressBook]
                 ELSE /\ mode = "polling"
                      /\ attempts[id][i].document_type = "Unknown"
                      /\ \/ <<"write_pdf", FALSE>> \in calls[id]
                         \/ (i = 2 /\ attempts[id][1].outcome = "raised")
            /\ Invoked(id) \subseteq {"download_pdf", "write_pdf"}

\* C5 witness: a mapped sender notified with the mapped category.
C5_Witness ==
    \E id \in FaxIds :
        /\ id \in finished
        /\ MappedSender(id)
        /\ <<"download_pdf", TRUE>> \in calls[id]
        /\ Len(attempts[id]) >= 1
        /\ attempts[id][1].via = "primary"
        /\ attempts[id][1].document_type = "LabResult"

\* C6: in process_new_faxes, an unmapped sender's fax with a failed download,
\* write, OCR or classification is notified, and only with 'Unknown'.
C6_PollingFailureNotifiesUnknown ==
    \A id \in FaxIds :
        (/\ InPolling(id)
         /\ UnmappedSender(id)
         /\ \E what \in {"download_tiff", "download_pdf", "write_pdf",
                         "process_tiff", "classify_text"} : FailedCall(id, what))
        => /\ Len(attempts[id]) >= 1
           /\ \A i \in 1..Len(attempts[id]) : attempts[id][i].document_type = "Unknown"

\* C6 witness: OCR failed for a fax and the fax was notified.
C6_Witness ==
    \E id \in FaxIds :
        /\ InPolling(id)
        /\ UnmappedSender(id)
        /\ FailedCall(id, "process_tiff")
        /\ Len(attempts[id]) >= 1

\* C7: in FaxProcessor, a primary notification that raised is followed by
\* exactly one more attempt, with the category 'Uncategorized'.
C7_RaisedPrimaryHasFallback ==
    \A id \in FaxIds :
        (/\ InProcessor(id)
         /\ Len(attempts[id]) >= 1
         /\ attempts[id][1].via = "primary"
         /\ attempts[id][1].outcome = "raised")
        => /\ Len(attempts[id]) = 2
           /\ attempts[id][2].document_type = "Uncategorized"

\* C8: no fax has more than two notification attempts, and an attempt that
\* returned False is the last attempt of its fax.
C8_AtMostTwoAttempts ==
    \A id \in FaxIds :
        /\ Len(attempts[id]) <= 2
        /\ \A i \in 1..Len(attempts[id]) :
             attempts[id][i].outcome = "failed" => i = Len(attempts[id])

\* C8 witness: one fax with two attempts and one whose attempt returned False.
C8_Witness ==
    /\ \E id \in FaxIds : Len(attempts[id]) = 2
    /\ \E id \in FaxIds : id \in finished /\ Len(attempts[id]) = 1
                          /\ attempts[id][1].outcome = "failed"

IsPrefix(a, b) == Len(a) <= Len(b) /\ \A i \in 1..Len(a) : a[i] = b[i]

\* C9: with one consumer, records begin processing in enqueue order, and a
\* record begins only when every record before it has finished.
C9_FifoOneAtATime ==
    mode = "processor" =>
        /\ IsPrefix(handed, enqueued)
        /\ \A i \in 1..(Len(handed) - 1) : handed[i] \in finished

\* C9 witness: two records were handed over in enqueue order, the second
\* one after the first had been notified and had finished.
C9_Witness ==
    /\ mode = "processor"
    /\ handed = <<1, 2>>
    /\ 1 \in finished
    /\ 2 \notin finished
    /\ attempts[1] # <<>>

\* C10: when the consumer has stopped, every record that was waiting in the
\* queue at the stop request has been processed.
C10_DrainedBeforeConsumerStops ==
    (mode = "processor" /\ \E c \in Consumers : pc[c] = "exited")
        => pendingAtStop \subseteq finished

(***************************************************************************)
(* Shutdown: no record is enqueued once stop_processing has been called    *)
(***************************************************************************)
\* add_fax_to_queue by a poller that stops feeding at the stop request
AddFaxBeforeStop ==
    /\ stopPc = "none"
    /\ AddFaxToQueue

\* one step of the _process_queue task c
ConsumerStep(c) ==
    \/ ProcessQueue(c)
    \/ WakeUp(c)
    \/ ProcessSingleFax(c)
    \/ ProcessKnownSender(c)
    \/ DownloadTiff(c)
    \/ DownloadPdf(c)
    \/ Ocr(c)
    \/ Redact(c)
    \/ Classify(c)
    \/ SendEmail(c)
    \/ HandleProcessingFailure(c)

NextStop ==
    \/ StartProcessingOnce
    \/ StopProcessing
    \/ StopReturns
    \/ AddFaxBeforeStop
    \/ \E c \in Consumers : ConsumerStep(c)

\* the event loop runs every task that is ready: each awaited call returns
\* or raises, each sleep ends
EventLoopFairness ==
    /\ \A c \in Consumers : WF_vars(ConsumerStep(c))
    /\ WF_vars(StopReturns)

SpecStop == Init /\ [][NextStop]_vars /\ EventLoopFairness

\* C11: once stop_processing has been called and nothing more is enqueued,
\* stop_processing eventually returns.
C11_StopEventuallyReturns == (stopPc = "waiting") ~> (stopPc = "returned")

\* C12: a task inside _process_single_fax never exits before the record has
\* returned, a task exits only when every record handed over (the one in
\* flight at the stop request included) has finished, no record is
\* dequeued while is_processing is False, and an exited task stays exited.
C12_InFlightRecordFinishes ==
    [][mode = "processor" => \A c \in Consumers :
          /\ pc[c] \in InFlight => pc'[c] \in InFlight \cup {"while", "sleep"}
          /\ pc[c] \in InFlight /\ pc'[c] \in InFlight => lv'[c].fax = lv[c].fax
          /\ pc'[c] = "exited" =>
                /\ \A i \in 1..Len(handed') : handed'[i] \in finished'
                /\ inFlightAtStop' \subseteq finished'
          /\ handed' # handed => is_processing
          /\ pc[c] = "exited" => pc'[c] = "exited"]_vars

\* C12 witness: the record that was in flight at the stop request was
\* notified and cleaned up before the consumer exited.
C12_Witness ==
    \E c \in Consumers : \E id \in inFlightAtStop :
        /\ pc[c] = "exited"
        /\ id \in finished
        /\ Sent(id)
        /\ <<attempts[id][1].pdf_path, TRUE>> \in removals

\* C13: with HIPAA_MODE on, every text handed to classify_text has gone
\* through redact_phi.
C13_ClassifierSeesRedactedText ==
    hipaa => \A id \in FaxIds :
        classifyArg[id] # <<>> => "redact_phi" \in Invoked(id)

\* C14: when the redaction engine failed for a record, FaxProcessor has
\* handed the pre-redaction text to classify_text and, once the record has
\* finished, has made a notification attempt for it.
C14_RedactionFailureDoesNotStop ==
    \A id \in FaxIds :
        (InProcessor(id) /\ FailedCall(id, "redact_phi"))
            => /\ classifyArg[id] = <<RawText>>
               /\ Len(attempts[id]) >= 1

\* CLASSIFICATION_CATEGORIES="Referral,LabResult" and DEFAULT_RESPONSE
Categories == {"Referral", "LabResult"}
DefaultResponse == "Uncategorized"

\* the labels a notification may carry: configured categories, the default
\* label, the failure labels of both pipelines, the mapped categories
ClosedLabels ==
    Categories \cup {DefaultResponse, "Uncategorized", MainFallbackLabel}
        \cup {sender_mappings[n] : n \in DOMAIN sender_mappings}

\* C15: the category of every notification is one of the closed set of
\* labels, whatever the language model answered.
C15_CategoryInClosedSet ==
    \A id \in FaxIds : \A i \in 1..Len(attempts[id]) :
        attempts[id][i].document_type \in ClosedLabels

(***************************************************************************)
(* Loading SENDER_MAPPINGS (fax_processor.py 30-36, main.py 100-106)       *)
(***************************************************************************)
MaxConfigLen == 4    \* characters of a SENDER_MAPPINGS text

ConfigChars == {"a", ":", ",", " "}
ConfigStrings == UNION {[1..n -> ConfigChars] : n \in 0..MaxConfigLen}

\* str.split(sep): the pieces between the separators, empty pieces kept
RECURSIVE SplitOn(_, _)
SplitOn(str, sep) ==
    IF str = <<>> THEN << <<>> >>
    ELSE LET rest == SplitOn(Tail(str), sep) IN
         IF Head(str) = sep
         THEN << <<>> >> \o rest
         ELSE << <<Head(str)>> \o Head(rest) >> \o Tail(rest)

\* str.strip(): leading and trailing blanks removed
RECURSIVE StripLeft(_)
StripLeft(str) ==
    IF str # <<>> /\ Head(str) = " " THEN StripLeft(Tail(str)) ELSE str

RECURSIVE StripRight(_)
StripRight(str) ==
    IF str # <<>> /\ str[Len(str)] = " "
    THEN StripRight(SubSeq(str, 1, Len(str) - 1))
    ELSE str

Strip(str) == StripRight(StripLeft(str))

EmptyTable == <<>>

\* sender_mappings[key] = value
Put(table, key, value) ==
    [k \in DOMAIN table \cup {key} |-> IF k = key THEN value ELSE table[k]]

\* variant: an entry that does not unpack into two parts is skipped
RECURSIVE LoadEntries_Skip(_, _)
LoadEntries_Skip(entries, table) ==
    IF entries = <<>> THEN [raised |-> FALSE, table |-> table]
    ELSE LET parts == SplitOn(Head(entries), ":") IN
         IF Len(parts) # 2
         THEN LoadEntries_Skip(Tail(entries), table)
         ELSE LoadEntries_Skip(Tail(entries),
                               Put(table, Strip(parts[1]), Strip(parts[2])))

\* the for loop: "sender, doc_type = mapping.split(':')" raises ValueError
\* unless the entry splits into exactly two parts
RECURSIVE LoadEntries(_, _)
LoadEntries(entries, table) ==
    IF entries = <<>> THEN [raised |-> FALSE, table |-> table]
    ELSE LET parts == SplitOn(Head(entries), ":") IN
         IF Len(parts) # 2
         THEN [raised |-> TRUE, table |-> table]
         ELSE LoadEntries(Tail(entries),
                          Put(table, Strip(parts[1]), Strip(parts[2])))

\* "if mappings_str:" then the loop over mappings_str.split(",")
LoadSenderMappings(str) ==
    IF str = <<>>
    THEN [raised |-> FALSE, table |-> EmptyTable]
    ELSE LoadEntries(SplitOn(str, ","), EmptyTable)

LookupNames == {<<>>, <<"a">>, <<"a", "a">>}

InitLoad ==
    /\ mode \in {"processor", "polling"}
    /\ hipaa = FALSE
    /\ mappings = EmptyTable
    /\ Idle
    /\ NoPaths
    /\ NoClock
    /\ mappings_str \in ConfigStrings
    /\ loadState = "unloaded"
    /\ lookups = {}

\* FaxProcessor.__init__, lines 30-36: an exception leaves no processor
ConstructProcessor ==
    /\ mode = "processor"
    /\ loadState = "unloaded"
    /\ LET loaded == LoadSenderMappings(mappings_str) IN
       IF loaded.raised
       THEN /\ loadState' = "raised"
            /\ UNCHANGED mappings
       ELSE /\ loadState' = "loaded"
            /\ mappings' = loaded.table
    /\ UNCHANGED <<mode, hipaa, mappings_str, lookups, pathVars, clockVars,
                   procVars, mainVars, faxVars, runVars, effectVars>>

\* process_new_faxes, lines 100-106: an exception is caught at line 237 and
\* ends the cycle before any fax is listed
LoadInPoll ==
    /\ mode = "polling"
    /\ loadState = "unloaded"
    /\ LET loaded == LoadSenderMappings(mappings_str) IN
       IF loaded.raised
       THEN /\ loadState' = "raised"
            /\ UNCHANGED mappings
       ELSE /\ loadState' = "loaded"
            /\ mappings' = loaded.table
    /\ UNCHANGED <<mode, hipaa, mappings_str, lookups, pathVars, clockVars,
                   procVars, mainVars, faxVars, runVars, effectVars>>

\* lines 79 and 99 (main.py 138 and 146): a fax is classified by its sender
LookupSender ==
    /\ loadState = "loaded"
    /\ \E name \in LookupNames :
        lookups' = lookups \cup
            {[from_name |-> name,
              known |-> IsKnownSender(name),
              doc_type |-> IF IsKnownSender(name)
                           THEN DirectClassification(name) ELSE <<>>]}
    /\ UNCHANGED <<cfgVars, mappings_str, loadState, pathVars, clockVars,
                   procVars, mainVars, faxVars, runVars, effectVars>>

NextLoad ==
    \/ ConstructProcessor
    \/ LoadInPoll
    \/ LookupSender

SpecLoad == InitLoad /\ [][NextLoad]_vars

\* an entry between two commas (or an end of the text) that does not
\* contain exactly one ':'
EntryBounds(str) == {0, Len(str) + 1} \cup {i \in 1..Len(str) : str[i] = ","}
HasMalformedEntry(str) ==
    /\ str # <<>>
    /\ \E b1, b2 \in EntryBounds(str) :
        /\ b1 < b2
        /\ \A k \in (b1 + 1)..(b2 - 1) : str[k] # ","
        /\ Cardinality({k \in (b1 + 1)..(b2 - 1) : str[k] = ":"}) # 1

\* C16: a SENDER_MAPPINGS text with a malformed entry is never loaded: the
\* load raises, no table is installed and no sender is looked up.
C16_MalformedEntryFailsLoading ==
    HasMalformedEntry(mappings_str) =>
        /\ loadState # "loaded"
        /\ mappings = EmptyTable
        /\ lookups = {}

\* C16 witness: the load of a text with a trailing comma after a
\* well-formed entry has raised.
C16_Witness ==
    /\ mappings_str = <<"a", ":", "a", ",">>
    /\ loadState = "raised"

\* C17: a record whose processing by FaxProcessor raised inside the try
\* block (its time does not convert, or its sender cannot be looked up) has
\* a notification attempt with the category 'Uncategorized'.
C17_ExceptionNotifiesUncategorized ==
    \A id \in FaxIds :
        (/\ mode = "processor"
         /\ id \in finished
         /\ \/ TimestampRaises(meta[id].time)
            \/ LookupRaises(meta[id].fromNameAddressBook))
        => \E i \in 1..Len(attempts[id]) :
              /\ attempts[id][i].document_type = "Uncategorized"
              /\ attempts[id][i].via = "fallback"

(***************************************************************************)
(* Lifecycle with any number of start_processing calls                     *)
(***************************************************************************)
NextRestart ==
    \/ StartProcessing
    \/ StopProcessing
    \/ StopReturns
    \/ AddFaxToQueue
    \/ \E c \in Consumers : ConsumerStep(c)

SpecRestart == Init /\ [][NextRestart]_vars

\* the _process_queue tasks that have been created and have not returned
LiveConsumers == {c \in Consumers : pc[c] \notin {"unstarted", "exited"}}

\* C18: at most one _process_queue task is alive at any time.
C18_AtMostOneConsumer == Cardinality(LiveConsumers) <= 1

(***************************************************************************)
(* The record and the mapping table are only read                          *)
(***************************************************************************)
\* the records the pipeline holds: queued, polled, or bound to a local name
HeldRecords ==
    {processing_queue[i] : i \in 1..Len(processing_queue)}
        \cup {batch[i] : i \in 1..Len(batch)}
        \cup {lv[c].fax : c \in {k \in Consumers : pc[k] \in InFlight}}
        \cup (IF mainPc \in {"known", "tiff", "pdf", "ocr", "classify", "send", "fallback"}
              THEN {mlv.fax} ELSE {})

\* C19: every record the pipeline holds, and the metadata argument of every
\* notification attempt (primary or fallback), equals the record as it was
\* enqueued; the sender mapping table is the one built at construction.
C19_RecordAndMappingsUnchanged ==
    /\ \A fax \in HeldRecords : fax = meta[fax.id]
    /\ \A id \in FaxIds : \A i \in 1..Len(attempts[id]) :
            attempts[id][i].fax_metadata = meta[id]
    /\ mappings = sender_mappings

\* C19 witness: a record whose time is a numeric string was notified on the
\* primary path and then on the failure path.
C19_Witness ==
    \E id \in FaxIds :
        /\ meta[id] # NoFax
        /\ meta[id].time.isStr
        /\ Len(attempts[id]) = 2
        /\ attempts[id][1].via = "primary"
        /\ attempts[id][2].via = "fallback"

(***************************************************************************)
(* The staging path, character by character                                *)
(***************************************************************************)
MaxIdLen == 2

\* identifiers are strings; "_" and a digit are the characters a path
\* already has around the identifier
IdChars == {"1", "_"}
PathIds == UNION {[1..n -> IdChars] : n \in 0..MaxIdLen}

\* the same instant as an int and as numeric strings, and other instants
PathTimes == {TimeInt(67), TimeStr(<<"6", "7">>), TimeStr(<<"0", "6", "7">>),
              TimeInt(7), TimeStr(<<"7">>), TimeInt(3667)}

PathRecords == {MakeFax(id, "", t) : id \in PathIds, t \in PathTimes}

\* a field of strftime, zero-padded to two digits
Pad2(n) == <<Digits[((n \div 10) % 10) + 1], Digits[(n % 10) + 1]>>

\* line 75: strftime('%Y%m%d_%H%M%S') of an instant in January 1970 (UTC)
StrftimeChars(ts) ==
    <<"1", "9", "7", "0", "0", "1">> \o Pad2(1 + ts \div 86400) \o <<"_">>
        \o Pad2((ts \div 3600) % 24) \o Pad2((ts \div 60) % 60) \o Pad2(ts % 60)

\* variant: the file is named after the time alone
PdfFilenameChars_TimeOnly(formatted_time, fax_id) ==
    <<"t", "m", "p", "/", "f", "a", "x", "_">> \o formatted_time
        \o <<".", "p", "d", "f">>

\* line 76: f"tmp/fax_{formatted_time}_{fax_id}.pdf"
PdfFilenameChars(formatted_time, fax_id) ==
    <<"t", "m", "p", "/", "f", "a", "x", "_">> \o formatted_time \o <<"_">>
        \o fax_id \o <<".", "p", "d", "f">>

InitPath ==
    /\ mode = "processor"
    /\ hipaa = FALSE
    /\ mappings = sender_mappings
    /\ Idle
    /\ NotLoading
    /\ NoClock
    /\ pathIn \in [1..2 -> PathRecords]
    /\ pathOut = [i \in 1..2 |-> <<>>]

\* lines 72-76 (main.py 129-134) for record i
ComputePdfFilename(i) ==
    /\ pathOut[i] = <<>>
    /\ ~TimestampRaises(pathIn[i].time)
    /\ pathOut' = [pathOut EXCEPT ![i] =
            PdfFilenameChars(StrftimeChars(Timestamp(pathIn[i].time)), pathIn[i].id)]
    /\ UNCHANGED <<cfgVars, loadVars, clockVars, pathIn, procVars, mainVars, faxVars,
                   runVars, effectVars>>

NextPath == \E i \in 1..2 : ComputePdfFilename(i)

SpecPath == InitPath /\ [][NextPath]_vars

BothPathsComputed == pathOut[1] # <<>> /\ pathOut[2] # <<>>

\* C20: two records with different identifiers get different staging paths,
\* whatever their times; two records with the same identifier and the same
\* instant, given as an int or as a numeric string, get the same path.
C20_PathsCollisionFree ==
    BothPathsComputed =>
        /\ pathIn[1].id # pathIn[2].id => pathOut[1] # pathOut[2]
        /\ (/\ pathIn[1].id = pathIn[2].id
            /\ Timestamp(pathIn[1].time) = Timestamp(pathIn[2].time))
           => pathOut[1] = pathOut[2]

\* C20 witness: the paths of two records with different identifiers and the
\* same instant, one given as an int and one as a string, were computed.
C20_Witness ==
    /\ BothPathsComputed
    /\ pathIn[1].id # pathIn[2].id
    /\ ~pathIn[1].time.isStr
    /\ pathIn[2].time.isStr
    /\ Timestamp(pathIn[1].time) = Timestamp(pathIn[2].time)

(***************************************************************************)
(* The consumer loop after an exception                                    *)
(***************************************************************************)
QueuedIds == {processing_queue[i].id : i \in 1..Len(processing_queue)}

\* C21: an exception that escaped _process_single_fax does not end the
\* consumer: no task has exited while is_processing is True, and a record
\* waiting in the queue behind a record whose exception escaped is finished
\* eventually, unless is_processing is cleared first.
C21_LoopSurvivesException ==
    /\ [](is_processing => \A c \in Consumers : pc[c] # "exited")
    /\ \A id \in FaxIds :
          (is_processing /\ id \in QueuedIds /\ \E f \in escaped : f < id)
              ~> (id \in finished \/ ~is_processing)

\* C21 witness: a record was finished after the exception of an earlier
\* record had escaped, and is_processing is still True.
C21_Witness ==
    /\ is_processing
    /\ \E f \in escaped : \E id \in finished \ escaped :
          /\ f < id
          /\ Len(attempts[id]) >= 1

\* C22: once stop_processing has returned, every record that was dequeued
\* has finished: no consumer is inside _process_single_fax.
C22_NoRecordMidPipelineAtReturn ==
    (mode = "processor" /\ stopPc = "returned") =>
        /\ \A i \in 1..Len(handed) : handed[i] \in finished
        /\ \A c \in Consumers : pc[c] \notin InFlight

(***************************************************************************)
(* The polling loop on the clock                                           *)
(***************************************************************************)
MaxClock == 8
MaxRate == 2
MaxSpent == 2

InitPoll ==
    /\ mode = "polling"
    /\ hipaa = FALSE
    /\ mappings = sender_mappings
    /\ Idle
    /\ NotLoading
    /\ NoPaths
    /\ polling_rate \in 1..MaxRate
    /\ clock = 0
    /\ pollPc = "poll"
    /\ windows = {}
    /\ polls = {}

\* process_new_faxes, lines 108-238: read the clock, ask for the faxes of
\* [now - POLLING_RATE, now], then spend some seconds on the request and on
\* the faxes it listed; a request that raises is only logged (line 237)
ProcessNewFaxes ==
    /\ pollPc = "poll"
    /\ polls' = polls \cup {clock}
    /\ \E answered \in BOOLEAN :
        windows' = IF answered THEN windows \cup {<<clock - polling_rate, clock>>}
                   ELSE windows
    /\ \E spent \in 0..MaxSpent :
        /\ clock + spent <= MaxClock
        /\ clock' = clock + spent
    /\ pollPc' = "sleep"
    /\ UNCHANGED <<cfgVars, loadVars, pathVars, polling_rate, procVars, mainVars,
                   faxVars, runVars, effectVars>>

\* polling_task, line 250: asyncio.sleep(POLLING_RATE)
PollingSleep ==
    /\ pollPc = "sleep"
    /\ clock + polling_rate <= MaxClock
    /\ clock' = clock + polling_rate
    /\ pollPc' = "poll"
    /\ UNCHANGED <<cfgVars, loadVars, pathVars, polling_rate, windows, polls, procVars,
                   mainVars, faxVars, runVars, effectVars>>

NextPoll == ProcessNewFaxes \/ PollingSleep

SpecPoll == InitPoll /\ [][NextPoll]_vars

\* the receipt times some answered request asked for
InSomeWindow(t) == \E w \in windows : w[1] <= t /\ t <= w[2]

\* C23: every integer time from the first poll to the latest poll lies in
\* the [timeFrom, timeTo] of an answered request.
C23_WindowsCoverPolledTime ==
    \A a \in polls : \A b \in polls : \A t \in a..b : InSomeWindow(t)
====
